---------------------------- MODULE Spec2Model ----------------------------
(***************************************************************************)
(* Model of promptflow/contracts/tool.py: the value kinds (ValueType), the *)
(* tolerant enum resolution helper, and the serialize / deserialize pairs  *)
(* of InputDefinition, OutputDefinition and Tool.                          *)
(*                                                                         *)
(* Python values are records tagged with their class in the field cls.     *)
(* A Python string is a sequence of one-character strings, so that         *)
(* str.lower, int(), float() and json.loads are computed character by      *)
(* character.  Plain mappings (the wire form) are TLA+ functions from      *)
(* field names to values.  A raised exception is a record of class Fault.  *)
(***************************************************************************)
EXTENDS Integers, Sequences, FiniteSets, TLC

VARIABLES
    enumCls,    \* _deserialize_enum: the enumeration class passed as cls
    enumVal,    \* _deserialize_enum: the candidate passed as val
    enumRes,    \* _deserialize_enum: the returned value (or the fault)
    pKind,      \* ValueType.parse: self
    pArg,       \* ValueType.parse: v
    pRes,       \* ValueType.parse: the returned value (or the fault)
    pClass,     \* ValueType.from_value applied to the parsed value
    pAgain,     \* ValueType.parse applied again to the parsed value
    defKind,    \* which definition class is being processed: "input" / "output"
    defOrig,    \* the definition object a caller constructed
    defWire,    \* the plain mapping: produced by serialize, or received
    defRes,     \* the definition object returned by deserialize (or the fault)
    toolObj,    \* the Tool object a caller constructed
    toolWire,   \* the plain mapping: produced by Tool.serialize, or received
    toolRes     \* the Tool object returned by Tool.deserialize (or the fault)

vars == <<enumCls, enumVal, enumRes, pKind, pArg, pRes, pClass, pAgain,
          defKind, defOrig, defWire, defRes, toolObj, toolWire, toolRes>>

enumVars == <<enumCls, enumVal, enumRes>>
parseVars == <<pKind, pArg, pRes, pClass, pAgain>>
defVars == <<defKind, defOrig, defWire, defRes>>
toolVars == <<toolObj, toolWire, toolRes>>

-----------------------------------------------------------------------------
(* Python values *)

None == [cls |-> "NoneType"]
Unset == [cls |-> "unset"]
PyStr(s) == [cls |-> "str", s |-> s]
PyBool(b) == [cls |-> "bool", b |-> b]
PyInt(n) == [cls |-> "int", n |-> n]
PyList(items) == [cls |-> "list", items |-> items]
PyTuple(items) == [cls |-> "tuple", items |-> items]
PyDict(d) == [cls |-> "dict", d |-> d]
Fault(exc) == [cls |-> "Fault", exc |-> exc]
Member(enum, s) == [cls |-> enum, s |-> s]

IsFault(v) == v.cls = "Fault"

\* The wrapper classes of .types (Secret, PromptTemplate, FilePath): subtypes
\* of str that add nothing to its value.
WrapperClasses == {"Secret", "PromptTemplate", "FilePath"}
Wrapper(c, s) == [cls |-> c, s |-> s]

\* isinstance(v, str): str itself, the str-backed enumerations, the wrappers
IsStr(v) == v.cls \in {"str", "ValueType", "ToolType"} \cup WrapperClasses

-----------------------------------------------------------------------------
(* str.lower *)

Uppers == <<"A", "B", "C", "D", "E", "F", "G", "H", "I", "J", "K", "L", "M",
            "N", "O", "P", "Q", "R", "S", "T", "U", "V", "W", "X", "Y", "Z">>
Lowers == <<"a", "b", "c", "d", "e", "f", "g", "h", "i", "j", "k", "l", "m",
            "n", "o", "p", "q", "r", "s", "t", "u", "v", "w", "x", "y", "z">>

LowerChar(c) ==
    IF \E i \in 1..Len(Uppers) : Uppers[i] = c
    THEN Lowers[CHOOSE i \in 1..Len(Uppers) : Uppers[i] = c]
    ELSE c

UpperChar(c) ==
    IF \E i \in 1..Len(Lowers) : Lowers[i] = c
    THEN Uppers[CHOOSE i \in 1..Len(Lowers) : Lowers[i] = c]
    ELSE c

StrLower(s) == [i \in 1..Len(s) |-> LowerChar(s[i])]
StrUpper(s) == [i \in 1..Len(s) |-> UpperChar(s[i])]
Capitalize(s) == [i \in 1..Len(s) |-> IF i = 1 THEN UpperChar(s[i]) ELSE s[i]]

-----------------------------------------------------------------------------
(* class ValueType(str, Enum) and class ToolType(str, Enum) *)

INT == Member("ValueType", <<"i", "n", "t">>)
DOUBLE == Member("ValueType", <<"d", "o", "u", "b", "l", "e">>)
BOOL == Member("ValueType", <<"b", "o", "o", "l">>)
STRING_KIND == Member("ValueType", <<"s", "t", "r", "i", "n", "g">>)
SECRET == Member("ValueType", <<"s", "e", "c", "r", "e", "t">>)
PROMPT_TEMPLATE == Member("ValueType", <<"p", "r", "o", "m", "p", "t", "_", "t", "e", "m", "p", "l", "a", "t", "e">>)
LIST == Member("ValueType", <<"l", "i", "s", "t">>)
OBJECT == Member("ValueType", <<"o", "b", "j", "e", "c", "t">>)
FILE_PATH == Member("ValueType", <<"f", "i", "l", "e", "_", "p", "a", "t", "h">>)
IMAGE == Member("ValueType", <<"i", "m", "a", "g", "e">>)

\* iteration order of the class is the order of definition
ValueType == <<INT, DOUBLE, BOOL, STRING_KIND, SECRET, PROMPT_TEMPLATE, LIST, OBJECT, FILE_PATH, IMAGE>>

LLM == Member("ToolType", <<"l", "l", "m">>)
PYTHON == Member("ToolType", <<"p", "y", "t", "h", "o", "n">>)
PROMPT == Member("ToolType", <<"p", "r", "o", "m", "p", "t">>)
_ACTION == Member("ToolType", <<"a", "c", "t", "i", "o", "n">>)
CUSTOM_LLM == Member("ToolType", <<"c", "u", "s", "t", "o", "m", "_", "l", "l", "m">>)

ToolType == <<LLM, PYTHON, PROMPT, _ACTION, CUSTOM_LLM>>

Range(f) == {f[i] : i \in DOMAIN f}
Min(S) == CHOOSE x \in S : \A y \in S : x <= y

-----------------------------------------------------------------------------
(* _deserialize_enum *)

\* bool(v) as used by "typ if typ else val": None is false, a string is true
\* exactly when it is not empty.
Truthy(v) ==
    CASE v.cls = "NoneType" -> FALSE
      [] IsStr(v) -> Len(v.s) > 0
      [] v.cls = "bool" -> v.b
      [] v.cls = "int" -> v.n # 0
      [] v.cls = "float" -> ~(v.kind = "finite" /\ v.num = 0)
      [] v.cls \in {"list", "tuple"} -> Len(v.items) > 0
      [] v.cls = "dict" -> DOMAIN v.d # {}
      [] OTHER -> TRUE

\* i.lower() and val.lower() of two strings compared with ==
LowerEq(a, b) == StrLower(a.s) = StrLower(b.s)

\* variant: the comparison without .lower()
FirstMatchCaseSensitive(cls, val) ==
    LET hits == {i \in DOMAIN cls : val.s = cls[i].s}
    IN  IF hits = {} THEN None ELSE cls[Min(hits)]

\* next((i for i in cls if val.lower() == i.lower()), None)
FirstMatch(cls, val) ==
    LET hits == {i \in DOMAIN cls : LowerEq(val, cls[i])}
    IN  IF hits = {} THEN None ELSE cls[Min(hits)]

\* variant: an unknown value is rejected, as ValueType(val) would
_deserialize_enum_Strict(cls, val) ==
    IF ~ \A i \in DOMAIN cls : IsStr(cls[i])
    THEN val
    ELSE IF cls # <<>> /\ ~IsStr(val)
    THEN Fault("AttributeError")
    ELSE LET typ == FirstMatch(cls, val)
         IN  IF Truthy(typ) THEN typ ELSE Fault("ValueError")

_deserialize_enum(cls, val) ==
    IF ~ \A i \in DOMAIN cls : IsStr(cls[i])
    THEN val
    ELSE IF cls # <<>> /\ ~IsStr(val)
    THEN Fault("AttributeError")      \* val.lower() on a value that is no string
    ELSE LET typ == FirstMatch(cls, val)
         IN  IF Truthy(typ) THEN typ ELSE val

EnumClass(name) == IF name = "ValueType" THEN ValueType ELSE ToolType

\* The candidates tried: every tag of both enumerations in three casings,
\* strings that are no tag, and values that are no string.
TagStrings == {m.s : m \in Range(ValueType) \cup Range(ToolType)}
UnknownStrings ==
    {<<>>, <<"C", "u", "s", "t", "o", "m", "C", "o", "n", "n", "e", "c", "t", "i", "o", "n">>, <<"A", "z", "u", "r", "e", "O", "p", "e", "n", "A", "I", "C", "o", "n", "n", "e", "c", "t", "i", "o", "n">>, <<"i", "n">>,
     <<"i", "n", "t", "e", "g", "e", "r">>, <<"i", "n", "t", " ">>, <<"s", "t", "r", "i", "n">>, <<"l", "l", "m", "2">>, <<"t", "o", "o", "l">>, <<"O", "b", "j", "e", "c", "t", "2">>}
CandidateStrings ==
    UNION {{s, StrUpper(s), Capitalize(s)} : s \in TagStrings} \cup UnknownStrings
EnumCandidates ==
    {PyStr(s) : s \in CandidateStrings}
        \cup {None, PyInt(1), PyList(<<>>), PyTuple(<<PyList(<<PyStr(<<"i", "n", "t">>)>>)>>)}

DeserializeEnum ==
    /\ enumRes = Unset
    /\ enumRes' = _deserialize_enum(EnumClass(enumCls), enumVal)
    /\ UNCHANGED <<enumCls, enumVal>>

-----------------------------------------------------------------------------
(* Python's built-in conversions used by ValueType.parse: int(), float(),  *)
(* str() and json.loads.  The literal grammars are those of Python without *)
(* exponents ("1e5") and string escapes, which no input tried here uses.   *)

Digits == <<"0", "1", "2", "3", "4", "5", "6", "7", "8", "9">>
IsDigit(c) == \E i \in DOMAIN Digits : Digits[i] = c
DigitVal(c) == (CHOOSE i \in DOMAIN Digits : Digits[i] = c) - 1

Abs(n) == IF n < 0 THEN -n ELSE n

RECURSIVE Pow10(_)
Pow10(k) == IF k = 0 THEN 1 ELSE 10 * Pow10(k - 1)

\* a float is num / 10^k (k smallest), or nan, or +-inf
RECURSIVE PyFloat(_, _)
PyFloat(num, k) ==
    IF k > 0 /\ num % 10 = 0
    THEN PyFloat(num \div 10, k - 1)
    ELSE [cls |-> "float", kind |-> "finite", num |-> num, k |-> k]
NaN == [cls |-> "float", kind |-> "nan", num |-> 0, k |-> 0]
Inf(sign) == [cls |-> "float", kind |-> "inf", num |-> sign, k |-> 0]

\* str.strip() (of blanks)
RECURSIVE LStrip(_)
LStrip(s) == IF s # <<>> /\ Head(s) = " " THEN LStrip(Tail(s)) ELSE s
RECURSIVE RStrip(_)
RStrip(s) ==
    IF s # <<>> /\ s[Len(s)] = " " THEN RStrip(SubSeq(s, 1, Len(s) - 1)) ELSE s
Strip(s) == RStrip(LStrip(s))

Sign(s) == IF s # <<>> /\ Head(s) = "-" THEN -1 ELSE 1
Unsigned(s) == IF s # <<>> /\ Head(s) \in {"+", "-"} THEN Tail(s) ELSE s

\* digits, with single underscores allowed between digits
DigitsOK(s) ==
    /\ s # <<>>
    /\ IsDigit(s[1]) /\ IsDigit(s[Len(s)])
    /\ \A i \in DOMAIN s : IsDigit(s[i]) \/ s[i] = "_"
    /\ \A i \in 1..(Len(s) - 1) : ~(s[i] = "_" /\ s[i + 1] = "_")

RECURSIVE DigitsValue(_)
DigitsValue(s) ==
    IF s = <<>> THEN 0
    ELSE LET front == SubSeq(s, 1, Len(s) - 1)
             c == s[Len(s)]
         IN  IF c = "_" THEN DigitsValue(front)
             ELSE 10 * DigitsValue(front) + DigitVal(c)

NumDigits(s) == Cardinality({i \in DOMAIN s : IsDigit(s[i])})

\* int(s) of a string
IntOfStr(s) ==
    LET t == Strip(s)
        body == Unsigned(t)
    IN  IF DigitsOK(body) THEN PyInt(Sign(t) * DigitsValue(body))
        ELSE Fault("ValueError")

\* float(s) of a string
FloatOfStr(s) ==
    LET t == Strip(s)
        body == Unsigned(t)
        low == StrLower(body)
        dots == {i \in DOMAIN body : body[i] = "."}
        dot == IF dots = {} THEN Len(body) + 1 ELSE Min(dots)
        ip == SubSeq(body, 1, dot - 1)
        fp == SubSeq(body, dot + 1, Len(body))
    IN  IF low \in {<<"i", "n", "f">>, <<"i", "n", "f", "i", "n", "i", "t", "y">>} THEN Inf(Sign(t))
        ELSE IF low = <<"n", "a", "n">> THEN NaN
        ELSE IF /\ Cardinality(dots) <= 1
                /\ ip # <<>> \/ fp # <<>>
                /\ ip = <<>> \/ DigitsOK(ip)
                /\ fp = <<>> \/ DigitsOK(fp)
        THEN PyFloat(Sign(t) * (DigitsValue(ip) * Pow10(NumDigits(fp)) + DigitsValue(fp)),
                     NumDigits(fp))
        ELSE Fault("ValueError")

\* int(v)
PyIntOf(v) ==
    CASE v.cls = "bool" -> PyInt(IF v.b THEN 1 ELSE 0)
      [] v.cls = "int" -> v
      [] v.cls = "float" ->
            IF v.kind = "nan" THEN Fault("ValueError")
            ELSE IF v.kind = "inf" THEN Fault("OverflowError")
            ELSE PyInt((IF v.num < 0 THEN -1 ELSE 1) * (Abs(v.num) \div Pow10(v.k)))
      [] IsStr(v) -> IntOfStr(v.s)
      [] OTHER -> Fault("TypeError")

\* float(v)
PyFloatOf(v) ==
    CASE v.cls = "bool" -> PyFloat(IF v.b THEN 1 ELSE 0, 0)
      [] v.cls = "int" -> PyFloat(v.n, 0)
      [] v.cls = "float" -> v
      [] IsStr(v) -> FloatOfStr(v.s)
      [] OTHER -> Fault("TypeError")

\* str(n) of an integer
RECURSIVE NatToStr(_)
NatToStr(n) ==
    IF n < 10 THEN <<Digits[n + 1]>>
    ELSE Append(NatToStr(n \div 10), Digits[(n % 10) + 1])
IntToStr(n) == IF n < 0 THEN <<"-">> \o NatToStr(-n) ELSE NatToStr(n)

\* n written with exactly k digits
RECURSIVE ZeroPad(_, _)
ZeroPad(s, k) == IF Len(s) >= k THEN s ELSE ZeroPad(<<"0">> \o s, k)

\* repr(f) of a float (positional notation)
FloatToStr(f) ==
    IF f.kind = "nan" THEN <<"n", "a", "n">>
    ELSE IF f.kind = "inf" THEN (IF f.num < 0 THEN <<"-", "i", "n", "f">> ELSE <<"i", "n", "f">>)
    ELSE (IF f.num < 0 THEN <<"-">> ELSE <<>>)
            \o NatToStr(Abs(f.num) \div Pow10(f.k)) \o <<".">>
            \o (IF f.k = 0 THEN <<"0">> ELSE ZeroPad(NatToStr(Abs(f.num) % Pow10(f.k)), f.k))

\* repr(s) of a string without backslashes: single quotes, unless it holds a
\* single quote and no double quote
StrRepr(s) ==
    IF (\E i \in DOMAIN s : s[i] = "'") /\ ~(\E i \in DOMAIN s : s[i] = "\"")
    THEN <<"\"">> \o s \o <<"\"">>
    ELSE <<"'">> \o s \o <<"'">>

RECURSIVE Repr(_)
RECURSIVE JoinRepr(_)
JoinRepr(items) ==
    IF items = <<>> THEN <<>>
    ELSE IF Len(items) = 1 THEN Repr(items[1])
    ELSE Repr(items[1]) \o <<",", " ">> \o JoinRepr(Tail(items))

\* repr(v); a dict is written only when empty
Repr(v) ==
    CASE v.cls = "NoneType" -> <<"N", "o", "n", "e">>
      [] v.cls = "bool" -> (IF v.b THEN <<"T", "r", "u", "e">> ELSE <<"F", "a", "l", "s", "e">>)
      [] v.cls = "int" -> IntToStr(v.n)
      [] v.cls = "float" -> FloatToStr(v)
      [] v.cls = "list" -> <<"[">> \o JoinRepr(v.items) \o <<"]">>
      [] v.cls = "tuple" ->
            <<"(">> \o JoinRepr(v.items)
                \o (IF Len(v.items) = 1 THEN <<",">> ELSE <<>>) \o <<")">>
      [] v.cls = "dict" /\ DOMAIN v.d = {} -> <<"{", "}">>
      [] v.cls = "object" -> <<"<", "o", "b", "j", "e", "c", "t", ">">>
      [] IsStr(v) -> StrRepr(v.s)

\* str(v): the characters of a string (an exact str, whatever its subclass),
\* repr(v) of anything else
PyStrOf(v) == IF IsStr(v) THEN PyStr(v.s) ELSE PyStr(Repr(v))

-----------------------------------------------------------------------------
(* json.loads, for documents made of arrays, strings, numbers, the literals *)
(* true / false / null / NaN / Infinity, and the empty object               *)

JsonFail == [ok |-> FALSE, val |-> None, pos |-> 0]
JsonOk(v, p) == [ok |-> TRUE, val |-> v, pos |-> p]

RECURSIVE SkipWs(_, _)
SkipWs(s, i) == IF i <= Len(s) /\ s[i] = " " THEN SkipWs(s, i + 1) ELSE i

RECURSIVE EndOfDigits(_, _)
EndOfDigits(s, i) == IF i <= Len(s) /\ IsDigit(s[i]) THEN EndOfDigits(s, i + 1) ELSE i

MatchAt(s, i, lit) ==
    /\ i + Len(lit) - 1 <= Len(s)
    /\ SubSeq(s, i, i + Len(lit) - 1) = lit

\* -?(0|[1-9][0-9]*)(\.[0-9]+)?
JsonNumber(s, i) ==
    LET neg == s[i] = "-"
        j == IF neg THEN i + 1 ELSE i
        e == IF j <= Len(s) /\ s[j] = "0" THEN j + 1 ELSE EndOfDigits(s, j)
        hasFrac == e + 1 <= Len(s) /\ s[e] = "." /\ IsDigit(s[e + 1])
        e2 == IF hasFrac THEN EndOfDigits(s, e + 1) ELSE e
        ip == SubSeq(s, j, e - 1)
        fp == SubSeq(s, e + 1, e2 - 1)
        sgn == IF neg THEN -1 ELSE 1
    IN  IF e = j THEN JsonFail
        ELSE IF hasFrac
        THEN JsonOk(PyFloat(sgn * (DigitsValue(ip) * Pow10(Len(fp)) + DigitsValue(fp)),
                            Len(fp)), e2)
        ELSE JsonOk(PyInt(sgn * DigitsValue(ip)), e)

JsonString(s, i) ==
    LET ends == {j \in (i + 1)..Len(s) : s[j] = "\""}
    IN  IF ends = {} THEN JsonFail
        ELSE JsonOk(PyStr(SubSeq(s, i + 1, Min(ends) - 1)), Min(ends) + 1)

RECURSIVE JsonValue(_, _)
RECURSIVE JsonItems(_, _, _)

\* the value starting at s[i]
JsonValue(s, i) ==
    IF i > Len(s) THEN JsonFail
    ELSE IF s[i] = "\"" THEN JsonString(s, i)
    ELSE IF s[i] = "[" THEN
        LET j == SkipWs(s, i + 1)
        IN  IF j <= Len(s) /\ s[j] = "]" THEN JsonOk(PyList(<<>>), j + 1)
            ELSE JsonItems(s, j, <<>>)
    ELSE IF s[i] = "{" THEN
        LET j == SkipWs(s, i + 1)
        IN  IF j <= Len(s) /\ s[j] = "}" THEN JsonOk(PyDict(<<>>), j + 1)
            ELSE JsonFail
    ELSE IF MatchAt(s, i, <<"t", "r", "u", "e">>) THEN JsonOk(PyBool(TRUE), i + 4)
    ELSE IF MatchAt(s, i, <<"f", "a", "l", "s", "e">>) THEN JsonOk(PyBool(FALSE), i + 5)
    ELSE IF MatchAt(s, i, <<"n", "u", "l", "l">>) THEN JsonOk(None, i + 4)
    ELSE IF MatchAt(s, i, <<"N", "a", "N">>) THEN JsonOk(NaN, i + 3)
    ELSE IF MatchAt(s, i, <<"I", "n", "f", "i", "n", "i", "t", "y">>) THEN JsonOk(Inf(1), i + 8)
    ELSE IF MatchAt(s, i, <<"-", "I", "n", "f", "i", "n", "i", "t", "y">>) THEN JsonOk(Inf(-1), i + 9)
    ELSE IF s[i] = "-" \/ IsDigit(s[i]) THEN JsonNumber(s, i)
    ELSE JsonFail

\* the rest of an array whose items so far are acc
JsonItems(s, i, acc) ==
    LET r == JsonValue(s, i)
        j == SkipWs(s, r.pos)
    IN  IF ~r.ok \/ j > Len(s) THEN JsonFail
        ELSE IF s[j] = "," THEN JsonItems(s, SkipWs(s, j + 1), Append(acc, r.val))
        ELSE IF s[j] = "]" THEN JsonOk(PyList(Append(acc, r.val)), j + 1)
        ELSE JsonFail

JsonLoads(s) ==
    LET r == JsonValue(s, SkipWs(s, 1))
    IN  IF r.ok /\ SkipWs(s, r.pos) = Len(s) + 1 THEN r.val
        ELSE Fault("JSONDecodeError")

-----------------------------------------------------------------------------
(* ValueType.from_value and ValueType.parse *)

from_value(t) ==
    IF t.cls = "Secret" THEN SECRET
    ELSE IF t.cls = "PromptTemplate" THEN PROMPT_TEMPLATE
    ELSE IF t.cls = "bool" THEN BOOL
    ELSE IF t.cls = "int" THEN INT
    ELSE IF t.cls = "float" THEN DOUBLE
    ELSE IF IsStr(t) THEN STRING_KIND
    ELSE IF t.cls = "list" THEN LIST
    ELSE IF t.cls = "FilePath" THEN FILE_PATH
    ELSE OBJECT

\* variant: the words compared without .lower()
ParseBoolCaseSensitive(v) ==
    IF v.cls = "bool" THEN v
    ELSE IF IsStr(v) /\ v.s \in {<<"t", "r", "u", "e">>, <<"f", "a", "l", "s", "e">>}
    THEN PyBool(v.s = <<"t", "r", "u", "e">>)
    ELSE Fault("ValueError")

\* ValueType.BOOL.parse
ParseBool(v) ==
    IF v.cls = "bool" THEN v
    ELSE IF IsStr(v) /\ StrLower(v.s) \in {<<"t", "r", "u", "e">>, <<"f", "a", "l", "s", "e">>}
    THEN PyBool(StrLower(v.s) = <<"t", "r", "u", "e">>)
    ELSE Fault("ValueError")

\* ValueType.LIST.parse
ParseList(v) ==
    LET w == IF IsStr(v) THEN JsonLoads(v.s) ELSE v
    IN  IF IsFault(w) THEN w
        ELSE IF w.cls # "list" THEN Fault("ValueError")
        ELSE w

\* ValueType.OBJECT.parse: the JSON value of a string that is JSON
ParseObject(v) ==
    IF IsStr(v) /\ ~IsFault(JsonLoads(v.s)) THEN JsonLoads(v.s) ELSE v

\* variant: the value returned without str()
ParseStringPassThrough(v) == v

\* ValueType.STRING.parse
ParseString(v) == PyStrOf(v)

parse(self, v) ==
    IF self = INT THEN PyIntOf(v)
    ELSE IF self = DOUBLE THEN PyFloatOf(v)
    ELSE IF self = BOOL THEN ParseBool(v)
    ELSE IF self = STRING_KIND THEN ParseString(v)
    ELSE IF self = LIST THEN ParseList(v)
    ELSE IF self = OBJECT THEN ParseObject(v)
    ELSE v

\* The values parsed: integers and floats within MaxInt, and strings, lists
\* and wrapper values that reach every branch of parse.
MaxInt == 2

ParseStrings ==
    {<<"t", "r", "u", "e">>, <<"T", "R", "U", "E">>, <<"F", "a", "l", "s", "e">>, <<"m", "a", "y", "b", "e">>, <<>>, <<"1", "2">>, <<"-", "7">>, <<" ", "1", "2", " ">>,
     <<"1", "_", "0">>, <<"0", "0", "7">>, <<"+", "5">>, <<"1", ".", "5">>, <<"-", "0", ".", "2", "5">>, <<".", "5">>, <<"5", ".">>, <<"n", "a", "n">>,
     <<"-", "i", "n", "f">>, <<"a", "b", "c">>, <<"p", "l", "a", "i", "n", " ", "t", "e", "x", "t">>, <<"[", "\"", "a", "\"", ",", "\"", "b", "\"", "]">>, <<"[", "]">>, <<"[", "1", ",", " ", "2", "]">>,
     <<"[", "1", ",", "]">>, <<"n", "o", "t", " ", "j", "s", "o", "n">>, <<"\"", "x", "\"">>, <<"{", "}">>, <<"n", "u", "l", "l">>, <<"[", "[", "1", "]", ",", " ", "t", "r", "u", "e", "]">>,
     <<"1", "2", "a", "b", "c">>, <<"1", "_", "_", "0">>, <<"[", "1">>, <<"N", "a", "N">>, <<"0", "1">>, <<"[", "-", "1", ".", "5", ",", " ", "\"", "a", " ", "b", "\"", "]">>, <<"1", ".">>}

ParseInputs ==
    {PyStr(s) : s \in ParseStrings}
        \cup {PyBool(b) : b \in BOOLEAN}
        \cup {PyInt(n) : n \in -MaxInt..MaxInt}
        \cup {PyFloat(n, k) : n \in -MaxInt..MaxInt, k \in 0..1}
        \cup {NaN, Inf(1), Inf(-1), None, [cls |-> "object"], PyDict(<<>>)}
        \cup {PyList(<<>>), PyList(<<PyInt(1)>>), PyList(<<PyStr(<<"a">>), PyStr(<<"b">>)>>),
              PyTuple(<<PyInt(1)>>)}
        \cup {Wrapper(c, s) : c \in WrapperClasses,
                              s \in {<<"1", "2">>, <<"t", "r", "u", "e">>, <<"[", "1", "]">>, <<"a", ".", "t", "x", "t">>}}

\* K.parse(v)
Parse ==
    /\ pRes = Unset
    /\ pRes' = parse(pKind, pArg)
    /\ UNCHANGED <<pKind, pArg, pClass, pAgain>>

\* ValueType.from_value(K.parse(v)), once parse has returned
FromValue ==
    /\ pRes # Unset /\ ~IsFault(pRes) /\ pClass = Unset
    /\ pClass' = from_value(pRes)
    /\ UNCHANGED <<pKind, pArg, pRes, pAgain>>

\* K.parse(K.parse(v)), once parse has returned
ParseAgain ==
    /\ pRes # Unset /\ ~IsFault(pRes) /\ pAgain = Unset
    /\ pAgain' = parse(pKind, pRes)
    /\ UNCHANGED <<pKind, pArg, pRes, pClass>>

-----------------------------------------------------------------------------
(* Plain mappings and dataclass objects *)

Get(d, k, default) == IF k \in DOMAIN d THEN d[k] ELSE default
Put(d, k, v) == (k :> v) @@ d
EmptyMap == <<>>

\* a dataclass instance: its class and its fields
Object(c, fields) == [cls |-> c, f |-> fields]

\* t.value of an enumeration member
HasValue(t) == t.cls \in {"ValueType", "ToolType"}
Value(t) == PyStr(t.s)

\* ValueType(t): the member whose value equals t, or ValueError
ValueTypeOf(t) ==
    IF IsStr(t) /\ \E i \in DOMAIN ValueType : ValueType[i].s = t.s
    THEN ValueType[CHOOSE i \in DOMAIN ValueType : ValueType[i].s = t.s]
    ELSE Fault("ValueError")

\* the first fault of a sequence of results, if any
FirstFault(res) == res[Min({i \in DOMAIN res : IsFault(res[i])})]
AnyFault(res) == \E i \in DOMAIN res : IsFault(res[i])

-----------------------------------------------------------------------------
(* InputDefinition *)

InputDefinition(type, default, description, enum, custom_type) ==
    Object("InputDefinition",
           [type |-> type, default |-> default, description |-> description,
            enum |-> enum, custom_type |-> custom_type])

\* the "type" entry as InputDefinition.serialize leaves it: the tuple that
\* wraps the list of tags stays unless exactly one kind is declared
InputTypeEntry(type) ==
    LET tags == [i \in DOMAIN type.items |-> Value(type.items[i])]
    IN  IF Len(tags) = 1 THEN tags[1] ELSE PyTuple(<<PyList(tags)>>)

InputDefinition_serialize(self) ==
    LET d0 == Put(EmptyMap, "type", InputTypeEntry(self.f.type))
        d1 == IF Truthy(self.f.default)
              THEN Put(d0, "default", PyStrOf(self.f.default)) ELSE d0
        d2 == IF Truthy(self.f.description)
              THEN Put(d1, "description", self.f.description) ELSE d1
        d3 == IF Truthy(self.f.enum) THEN Put(d2, "enum", self.f.enum) ELSE d2
        d4 == IF Truthy(self.f.custom_type)
              THEN Put(d3, "custom_type", self.f.custom_type) ELSE d3
    IN  IF \E i \in DOMAIN self.f.type.items : ~HasValue(self.f.type.items[i])
        THEN Fault("AttributeError")        \* t.value of a raw string
        ELSE PyDict(d4)

_deserialize_type(v) ==
    LET items == IF v.cls = "list" THEN v.items ELSE <<v>>
        res == [i \in DOMAIN items |-> _deserialize_enum(ValueType, items[i])]
    IN  IF AnyFault(res) THEN FirstFault(res) ELSE PyList(res)

InputDefinition_deserialize(data) ==
    IF "type" \notin DOMAIN data THEN Fault("KeyError")
    ELSE LET type == _deserialize_type(data["type"])
         IN  IF IsFault(type) THEN type
             ELSE InputDefinition(type,
                                  Get(data, "default", PyStr(<<>>)),
                                  Get(data, "description", PyStr(<<>>)),
                                  Get(data, "enum", PyList(<<>>)),
                                  None)

-----------------------------------------------------------------------------
(* OutputDefinition *)

OutputDefinition(type, description, is_property) ==
    Object("OutputDefinition",
           [type |-> type, description |-> description, is_property |-> is_property])

OutputTypeEntry(type) ==
    LET tags == [i \in DOMAIN type.items |-> Value(type.items[i])]
    IN  IF Len(tags) = 1 THEN tags[1] ELSE PyList(tags)

\* variant: is_property written only when true, like the optional fields
OutputDefinition_serialize_OmitFalse(self) ==
    LET d0 == Put(EmptyMap, "type", OutputTypeEntry(self.f.type))
        d1 == IF Truthy(self.f.is_property)
              THEN Put(d0, "is_property", self.f.is_property) ELSE d0
        d2 == IF Truthy(self.f.description)
              THEN Put(d1, "description", self.f.description) ELSE d1
    IN  IF \E i \in DOMAIN self.f.type.items : ~HasValue(self.f.type.items[i])
        THEN Fault("AttributeError")
        ELSE PyDict(d2)

OutputDefinition_serialize(self) ==
    LET d0 == Put(Put(EmptyMap, "type", OutputTypeEntry(self.f.type)),
                  "is_property", self.f.is_property)
        d1 == IF Truthy(self.f.description)
              THEN Put(d0, "description", self.f.description) ELSE d0
    IN  IF \E i \in DOMAIN self.f.type.items : ~HasValue(self.f.type.items[i])
        THEN Fault("AttributeError")
        ELSE PyDict(d1)

OutputDefinition_deserialize(data) ==
    IF "type" \notin DOMAIN data THEN Fault("KeyError")
    ELSE LET v == data["type"]
             items == IF v.cls = "list" THEN v.items ELSE <<v>>
             res == [i \in DOMAIN items |-> ValueTypeOf(items[i])]
         IN  IF AnyFault(res) THEN FirstFault(res)
             ELSE OutputDefinition(PyList(res),
                                   Get(data, "description", PyStr(<<>>)),
                                   Get(data, "is_property", PyBool(FALSE)))

-----------------------------------------------------------------------------
(* One definition at a time: a caller constructs it, serializes it and     *)
(* deserializes the mapping; or a mapping is received and deserialized.    *)

MaxTypes == 2

SeqsUpTo(S, n) == UNION {[1..k -> S] : k \in 0..n}

\* kinds a constructed definition declares: members, and a raw string such
\* as deserialization leaves for a kind it does not know
DeclaredKinds == {INT, STRING_KIND, LIST, SECRET, PyStr(<<"C", "u", "s", "t", "o", "m", "C", "o", "n", "n", "e", "c", "t", "i", "o", "n">>)}
DeclaredTypes == {PyList(t) : t \in SeqsUpTo(DeclaredKinds, MaxTypes)}

InputDefinitions ==
    {InputDefinition(t, df, ds, en, ct) :
        t \in DeclaredTypes,
        df \in {None, PyStr(<<>>), PyStr(<<"x">>), PyInt(5)},
        ds \in {None, PyStr(<<"d">>)},
        en \in {None, PyList(<<>>), PyList(<<PyStr(<<"a">>), PyStr(<<"b">>)>>)},
        ct \in {None, PyList(<<PyStr(<<"M", "y", "C", "o", "n", "n", "e", "c", "t", "i", "o", "n">>)>>)}}

OutputDefinitions ==
    {OutputDefinition(t, ds, ip) :
        t \in DeclaredTypes,
        ds \in {PyStr(<<>>), PyStr(<<"d">>)},
        ip \in {PyBool(TRUE), PyBool(FALSE)}}

\* the "type" entries of received mappings: a tag or a list of tags, in the
\* casing of the enumeration or not, known or not
WireTags ==
    {PyStr(s) : s \in {<<"i", "n", "t">>, <<"I", "N", "T">>, <<"S", "t", "r", "i", "n", "g">>, <<"l", "i", "s", "t">>, <<"s", "e", "c", "r", "e", "t">>,
                       <<"C", "u", "s", "t", "o", "m", "C", "o", "n", "n", "e", "c", "t", "i", "o", "n">>}}
WireTypes == WireTags \cup {PyList(t) : t \in SeqsUpTo(WireTags, MaxTypes)}

\* the mappings over the optional keys ks, each absent or holding its value
Optional(ks, val) == UNION {{[k \in K |-> val[k]]} : K \in SUBSET ks}

InputWires ==
    {PyDict(o) : o \in Optional({"default", "description", "enum"},
                                [default |-> PyStr(<<"x">>),
                                 description |-> PyStr(<<"d">>),
                                 enum |-> PyList(<<PyStr(<<"a">>), PyStr(<<"b">>)>>)])}
    \cup
    {PyDict(Put(o, "type", t)) :
        t \in WireTypes,
        o \in Optional({"default", "description", "enum"},
                       [default |-> PyStr(<<"x">>),
                        description |-> PyStr(<<"d">>),
                        enum |-> PyList(<<PyStr(<<"a">>), PyStr(<<"b">>)>>)])}

OutputWires ==
    {PyDict(o) : o \in Optional({"description"}, [description |-> PyStr(<<"d">>)])}
    \cup
    {PyDict(Put(o, "type", t) @@ p) :
        t \in WireTypes,
        o \in Optional({"description"}, [description |-> PyStr(<<"d">>)]),
        p \in {EmptyMap, [is_property |-> PyBool(TRUE)], [is_property |-> PyBool(FALSE)]}}

InputSerialize ==
    /\ defKind = "input" /\ defOrig # Unset /\ defWire = Unset
    /\ defWire' = InputDefinition_serialize(defOrig)
    /\ UNCHANGED <<defKind, defOrig, defRes>>

InputDeserialize ==
    /\ defKind = "input" /\ defWire # Unset /\ ~IsFault(defWire) /\ defRes = Unset
    /\ defRes' = InputDefinition_deserialize(defWire.d)
    /\ UNCHANGED <<defKind, defOrig, defWire>>

OutputSerialize ==
    /\ defKind = "output" /\ defOrig # Unset /\ defWire = Unset
    /\ defWire' = OutputDefinition_serialize(defOrig)
    /\ UNCHANGED <<defKind, defOrig, defRes>>

OutputDeserialize ==
    /\ defKind = "output" /\ defWire # Unset /\ ~IsFault(defWire) /\ defRes = Unset
    /\ defRes' = OutputDefinition_deserialize(defWire.d)
    /\ UNCHANGED <<defKind, defOrig, defWire>>

-----------------------------------------------------------------------------
(* Tool *)

Tool(name, type, inputs, outputs, description, module, class_name, source, code, function, connection_type, is_builtin, stage) ==
    Object("Tool",
           [name |-> name, type |-> type, inputs |-> inputs, outputs |-> outputs,
            description |-> description, module |-> module,
            class_name |-> class_name, source |-> source, code |-> code,
            function |-> function, connection_type |-> connection_type,
            is_builtin |-> is_builtin, stage |-> stage])

DataClasses == {"Tool", "InputDefinition", "OutputDefinition"}

\* a == b of two Python values; the str-backed enumerations compare as strings
PyEq(a, b) == IF IsStr(a) /\ IsStr(b) THEN a.s = b.s ELSE a = b

\* dict_factory=lambda x: {k: v for (k, v) in x if v is not None and k != "outputs"}
DictFactory(items) ==
    [k \in {j \in DOMAIN items : items[j] # None /\ j # "outputs"} |-> items[k]]

\* dataclasses.asdict: dataclass instances become mappings through the
\* dict_factory, at every depth; lists, tuples and dicts are rebuilt
RECURSIVE AsDict(_)
AsDict(v) ==
    CASE v.cls \in DataClasses ->
            PyDict(DictFactory([k \in DOMAIN v.f |-> AsDict(v.f[k])]))
      [] v.cls = "dict" -> PyDict([k \in DOMAIN v.d |-> AsDict(v.d[k])])
      [] v.cls \in {"list", "tuple"} ->
            [cls |-> v.cls, items |-> [i \in DOMAIN v.items |-> AsDict(v.items[i])]]
      [] OTHER -> v

\* variant: inputs left in the mapping of an action tool
SkippedFieldsWithoutInputs == {"type", "outputs"}

\* skipped_fields = ["type", "inputs", "outputs"]
SkippedFields == {"type", "inputs", "outputs"}

Tool_serialize(self) ==
    LET data == AsDict(self).d
    IN  IF ~PyEq(self.f.type, _ACTION) THEN PyDict(data)
        ELSE PyDict([k \in DOMAIN data \ SkippedFields |-> data[k]])

\* the default of data.get("description", ...) in Tool.deserialize
ToolDescriptionDefault == PyStr(<<>>)

Tool_deserialize(data) ==
    IF "name" \notin DOMAIN data \/ "type" \notin DOMAIN data THEN Fault("KeyError")
    ELSE LET type == _deserialize_enum(ToolType, data["type"])
             ins == Get(data, "inputs", PyDict(EmptyMap)).d
             outs == Get(data, "outputs", PyDict(EmptyMap)).d
             inputs == [k \in DOMAIN ins |-> InputDefinition_deserialize(ins[k].d)]
             outputs == [k \in DOMAIN outs |-> OutputDefinition_deserialize(outs[k].d)]
         IN  IF IsFault(type) THEN type
             ELSE IF \E k \in DOMAIN inputs : IsFault(inputs[k])
             THEN inputs[CHOOSE k \in DOMAIN inputs : IsFault(inputs[k])]
             ELSE IF \E k \in DOMAIN outputs : IsFault(outputs[k])
             THEN outputs[CHOOSE k \in DOMAIN outputs : IsFault(outputs[k])]
             ELSE Tool(data["name"], type, PyDict(inputs), PyDict(outputs),
                       Get(data, "description", ToolDescriptionDefault),
                       Get(data, "module", None),
                       Get(data, "class_name", None),
                       Get(data, "source", None),
                       Get(data, "code", None),
                       Get(data, "function", None),
                       Get(data, "connection_type", None),
                       Get(data, "is_builtin", None),
                       Get(data, "stage", None))

\* The tools constructed.  Four metadata fields are set or left None one by
\* one; class_name, source, code, function and stage are set or left together.
MetaValues ==
    [description |-> PyStr(<<"d", "e", "s", "c">>), module |-> PyStr(<<"p", "k", "g", ".", "m", "o", "d">>),
     is_builtin |-> PyBool(TRUE),
     connection_type |-> PyList(<<PyStr(<<"A", "z", "u", "r", "e", "O", "p", "e", "n", "A", "I", "C", "o", "n", "n", "e", "c", "t", "i", "o", "n">>)>>),
     class_name |-> PyStr(<<"C", "l", "s">>), source |-> PyStr(<<"t", "o", "o", "l", ".", "p", "y">>),
     code |-> PyStr(<<"p", "a", "s", "s">>), function |-> PyStr(<<"r", "u", "n">>), stage |-> PyStr(<<"t", "e", "s", "t">>)]
SingleMeta == {"description", "module", "is_builtin", "connection_type"}
GroupMeta == {"class_name", "source", "code", "function", "stage"}
MetaChoices == {K \cup G : K \in SUBSET SingleMeta, G \in {{}, GroupMeta}}

ToolTypes == Range(ToolType) \cup {PyStr(<<"a", "c", "t", "i", "o", "n">>), PyStr(<<"m", "y", "_", "t", "o", "o", "l">>)}

ToolInputs ==
    {PyDict(EmptyMap),
     PyDict([x |-> InputDefinition(PyList(<<INT>>), None, None, None, None)]),
     PyDict([x |-> InputDefinition(PyList(<<INT, STRING_KIND>>), PyStr(<<"x">>),
                                   PyStr(<<"d">>), None, None)])}
ToolOutputs ==
    {None, PyDict(EmptyMap),
     PyDict([o |-> OutputDefinition(PyList(<<STRING_KIND>>), PyStr(<<>>), PyBool(FALSE))])}

Meta(K, k) == IF k \in K THEN MetaValues[k] ELSE None

Tools ==
    {Tool(PyStr(<<"t">>), ty, ins, outs, Meta(K, "description"), Meta(K, "module"),
          Meta(K, "class_name"), Meta(K, "source"), Meta(K, "code"),
          Meta(K, "function"), Meta(K, "connection_type"), Meta(K, "is_builtin"),
          Meta(K, "stage")) :
        ty \in ToolTypes, ins \in ToolInputs, outs \in ToolOutputs, K \in MetaChoices}

\* The mappings received: name and type present or not, the type tag in any
\* casing, known or not, or no string; inputs and outputs absent, well formed
\* or not.
ToolWireTypes ==
    {PyStr(s) : s \in {<<"l", "l", "m">>, <<"L", "L", "M">>, <<"P", "y", "t", "h", "o", "n">>, <<"a", "c", "t", "i", "o", "n">>, <<"A", "C", "T", "I", "O", "N">>,
                       <<"c", "u", "s", "t", "o", "m", "_", "l", "l", "m">>, <<"p", "r", "o", "m", "p", "t">>, <<"m", "y", "_", "t", "o", "o", "l">>}} \cup {None}
ToolWireInputs ==
    {EmptyMap,
     [inputs |-> PyDict(EmptyMap)],
     [inputs |-> PyDict([x |-> PyDict([type |-> PyStr(<<"i", "n", "t">>)])])],
     [inputs |-> PyDict([x |-> PyDict([default |-> PyStr(<<"x">>)])])]}
ToolWireOutputs ==
    {EmptyMap,
     [outputs |-> PyDict([o |-> PyDict([type |-> PyStr(<<"s", "t", "r", "i", "n", "g">>)])])],
     [outputs |-> PyDict([o |-> PyDict([type |-> PyStr(<<"I", "N", "T">>)])])]}

ToolWires ==
    {PyDict(n @@ t @@ i @@ o @@ [k \in K |-> MetaValues[k]]) :
        n \in {EmptyMap, [name |-> PyStr(<<"t">>)]},
        t \in {EmptyMap} \cup {[type |-> ty] : ty \in ToolWireTypes},
        i \in ToolWireInputs, o \in ToolWireOutputs, K \in MetaChoices}

ToolSerialize ==
    /\ toolObj # Unset /\ toolWire = Unset
    /\ toolWire' = Tool_serialize(toolObj)
    /\ UNCHANGED <<toolObj, toolRes>>

ToolDeserialize ==
    /\ toolWire # Unset /\ ~IsFault(toolWire) /\ toolRes = Unset
    /\ toolRes' = Tool_deserialize(toolWire.d)
    /\ UNCHANGED <<toolObj, toolWire>>

-----------------------------------------------------------------------------
(* Specifications: one per part of the module, the other parts at rest *)

\* _deserialize_enum(cls, val) for each enumeration and candidate
InitEnum ==
    /\ enumCls \in {"ValueType", "ToolType"}
    /\ enumVal \in EnumCandidates
    /\ enumRes = Unset
    /\ pKind = Unset /\ pArg = Unset /\ pRes = Unset /\ pClass = Unset /\ pAgain = Unset
    /\ defKind = "none" /\ defOrig = Unset /\ defWire = Unset /\ defRes = Unset
    /\ toolObj = Unset /\ toolWire = Unset /\ toolRes = Unset

NextEnum == DeserializeEnum /\ UNCHANGED <<parseVars, defVars, toolVars>>
SpecEnum == InitEnum /\ [][NextEnum]_vars

\* K.parse(v) for each kind K and value v
InitParse ==
    /\ pKind \in Range(ValueType)
    /\ pArg \in ParseInputs
    /\ pRes = Unset /\ pClass = Unset /\ pAgain = Unset
    /\ enumCls = "none" /\ enumVal = Unset /\ enumRes = Unset
    /\ defKind = "none" /\ defOrig = Unset /\ defWire = Unset /\ defRes = Unset
    /\ toolObj = Unset /\ toolWire = Unset /\ toolRes = Unset

NextParse ==
    \/ Parse /\ UNCHANGED <<enumVars, defVars, toolVars>>
    \/ FromValue /\ UNCHANGED <<enumVars, defVars, toolVars>>
    \/ ParseAgain /\ UNCHANGED <<enumVars, defVars, toolVars>>
SpecParse == InitParse /\ [][NextParse]_vars

\* a constructed definition, or a received mapping
InitDef ==
    /\ defKind \in {"input", "output"}
    /\ defRes = Unset
    /\ \/ /\ defOrig \in (IF defKind = "input" THEN InputDefinitions
                                               ELSE OutputDefinitions)
          /\ defWire = Unset
       \/ /\ defOrig = Unset
          /\ defWire \in (IF defKind = "input" THEN InputWires ELSE OutputWires)
    /\ enumCls = "none" /\ enumVal = Unset /\ enumRes = Unset
    /\ pKind = Unset /\ pArg = Unset /\ pRes = Unset /\ pClass = Unset /\ pAgain = Unset
    /\ toolObj = Unset /\ toolWire = Unset /\ toolRes = Unset

NextDef ==
    \/ InputSerialize /\ UNCHANGED <<enumVars, parseVars, toolVars>>
    \/ InputDeserialize /\ UNCHANGED <<enumVars, parseVars, toolVars>>
    \/ OutputSerialize /\ UNCHANGED <<enumVars, parseVars, toolVars>>
    \/ OutputDeserialize /\ UNCHANGED <<enumVars, parseVars, toolVars>>
SpecDef == InitDef /\ [][NextDef]_vars

\* a constructed tool, or a received mapping
InitTool ==
    /\ toolRes = Unset
    /\ \/ toolObj \in Tools /\ toolWire = Unset
       \/ toolObj = Unset /\ toolWire \in ToolWires
    /\ enumCls = "none" /\ enumVal = Unset /\ enumRes = Unset
    /\ pKind = Unset /\ pArg = Unset /\ pRes = Unset /\ pClass = Unset /\ pAgain = Unset
    /\ defKind = "none" /\ defOrig = Unset /\ defWire = Unset /\ defRes = Unset

NextTool ==
    \/ ToolSerialize /\ UNCHANGED <<enumVars, parseVars, defVars>>
    \/ ToolDeserialize /\ UNCHANGED <<enumVars, parseVars, defVars>>
SpecTool == InitTool /\ [][NextTool]_vars

Init == InitEnum \/ InitParse \/ InitDef \/ InitTool
Next == NextEnum \/ NextParse \/ NextDef \/ NextTool
Spec == Init /\ [][Next]_vars

-----------------------------------------------------------------------------
(* Properties *)

\* the tags are written in lower case: s matches the member m whatever its
\* own casing when its lower-case form is m's tag
Matches(s, m) == StrLower(s) = m.s
Resolved(cls, v) ==
    IF \E i \in DOMAIN cls : Matches(v.s, cls[i])
    THEN cls[CHOOSE i \in DOMAIN cls : Matches(v.s, cls[i])]
    ELSE v

AllMembers(type) ==
    \A i \in DOMAIN type.items : type.items[i].cls = "ValueType"
Tags(type) == [i \in DOMAIN type.items |-> PyStr(type.items[i].s)]

\* C1: for an InputDefinition whose type is a non-empty sequence of ValueType
\* members, deserialize(serialize(d)) succeeds and has the same type members
\* and the same value in every populated optional field (default,
\* description, enum, custom_type).
C1_InputRoundTrip ==
    (/\ defKind = "input" /\ defOrig # Unset /\ defRes # Unset
     /\ AllMembers(defOrig.f.type) /\ Len(defOrig.f.type.items) >= 1)
    => /\ ~IsFault(defRes)
       /\ defRes.f.type = defOrig.f.type
       /\ \A k \in {"default", "description", "enum", "custom_type"} :
             Truthy(defOrig.f[k]) => defRes.f[k] = defOrig.f[k]

\* C2: InputDefinition.serialize and OutputDefinition.serialize emit "type" as
\* the one tag string when exactly one kind is declared, and otherwise as the
\* flat list of the tags of the declared kinds, in order.
C2_TypeEntryShape ==
    (/\ defKind \in {"input", "output"} /\ defOrig # Unset /\ defWire # Unset
     /\ AllMembers(defOrig.f.type))
    => /\ ~IsFault(defWire)
       /\ defWire.d["type"] =
            (IF Len(defOrig.f.type.items) = 1
             THEN Tags(defOrig.f.type)[1]
             ELSE PyList(Tags(defOrig.f.type)))

\* the "type" entry of a mapping, as the sequence of its tags
TypeItems(d) == IF d["type"].cls = "list" THEN d["type"].items ELSE <<d["type"]>>

\* C3: InputDefinition.deserialize and OutputDefinition.deserialize normalize
\* "type" to a sequence and resolve each tag tolerantly: a tag that matches a
\* ValueType tag whatever its casing becomes that member, any other tag stays
\* the raw string, and neither fails.
C3_TolerantTypeDeserialize ==
    (/\ defKind \in {"input", "output"} /\ defWire # Unset /\ ~IsFault(defWire)
     /\ defRes # Unset /\ "type" \in DOMAIN defWire.d
     /\ \A i \in DOMAIN TypeItems(defWire.d) : TypeItems(defWire.d)[i].cls = "str")
    => /\ ~IsFault(defRes)
       /\ defRes.f.type =
            PyList([i \in DOMAIN TypeItems(defWire.d) |->
                        Resolved(ValueType, TypeItems(defWire.d)[i])])

\* C4: _deserialize_enum against ValueType or ToolType, for every string s:
\* the member whose value equals s case-insensitively if there is one,
\* otherwise s itself, unchanged; never a fault.
C4_TolerantEnumResolution ==
    (enumRes # Unset /\ enumVal.cls = "str")
    => LET cls == EnumClass(enumCls)
           hits == {i \in DOMAIN cls : Matches(enumVal.s, cls[i])}
       IN  /\ ~IsFault(enumRes)
           /\ hits # {} => \E i \in hits : enumRes = cls[i]
           /\ hits = {} => enumRes = enumVal

C4_Witness ==
    /\ enumCls = "ValueType" /\ enumVal = PyStr(<<"P", "R", "O", "M", "P", "T", "_", "T", "E", "M", "P", "L", "A", "T", "E">>)
    /\ enumRes = PROMPT_TEMPLATE

\* C5: whenever InputDefinition.deserialize returns, the type of the
\* definition it returns is not empty, also when the "type" entry is an empty
\* list.
C5_TypeNeverEmpty ==
    (defKind = "input" /\ defRes # Unset /\ ~IsFault(defRes))
    => Len(defRes.f.type.items) >= 1

\* C6 as stated: for every kind K but object and every v that K.parse
\* accepts, from_value(K.parse(v)) = K and K.parse(K.parse(v)) = K.parse(v).
C6_NoKindDriftButObject ==
    pKind # OBJECT
    => /\ pClass # Unset => pClass = pKind
       /\ pAgain # Unset => pAgain = pRes

\* C6 as amended: from_value(K.parse(v)) = K for K among int, double, bool,
\* string and list; K.parse(K.parse(v)) = K.parse(v) for every kind but
\* object.  (secret, prompt_template, file_path and image return v as it is,
\* and v classifies as whatever it was.)
C6_NoKindDriftCoercedKinds ==
    /\ (pKind \in {INT, DOUBLE, BOOL, STRING_KIND, LIST} /\ pClass # Unset)
        => pClass = pKind
    /\ (pKind \notin {OBJECT, Unset} /\ pAgain # Unset) => pAgain = pRes

C6_Witness ==
    /\ pKind = INT /\ pArg = PyStr(<<" ", "1", "2", " ">>) /\ pRes = PyInt(12)
    /\ pClass = INT /\ pAgain = PyInt(12)

\* the fields of a Tool other than name, type, inputs and outputs
ToolMetaFields ==
    {"description", "module", "class_name", "source", "code", "function",
     "connection_type", "is_builtin", "stage"}

\* a received mapping that holds only name and type, the type a string
OnlyNameAndType ==
    /\ toolObj = Unset /\ toolWire # Unset /\ toolRes # Unset
    /\ DOMAIN toolWire.d = {"name", "type"}
    /\ toolWire.d["type"].cls = "str"

\* C7 as stated: Tool.deserialize of a mapping with only name and type gives
\* the ToolType member that matches the tag case-insensitively, empty inputs
\* and outputs, and None in every other field, description included.
C7_MinimalToolAllNone ==
    OnlyNameAndType
    => /\ ~IsFault(toolRes)
       /\ \A i \in DOMAIN ToolType :
             Matches(toolWire.d["type"].s, ToolType[i]) => toolRes.f.type = ToolType[i]
       /\ toolRes.f.inputs = PyDict(EmptyMap)
       /\ toolRes.f.outputs = PyDict(EmptyMap)
       /\ \A k \in ToolMetaFields : toolRes.f[k] = None

\* C7 as amended: the same, except that description is the empty string;
\* module, class_name, source, code, function, connection_type, is_builtin
\* and stage are None.
C7_MinimalToolEmptyDescription ==
    OnlyNameAndType
    => /\ ~IsFault(toolRes)
       /\ toolRes.f.name = toolWire.d["name"]
       /\ \A i \in DOMAIN ToolType :
             Matches(toolWire.d["type"].s, ToolType[i]) => toolRes.f.type = ToolType[i]
       /\ toolRes.f.inputs = PyDict(EmptyMap)
       /\ toolRes.f.outputs = PyDict(EmptyMap)
       /\ toolRes.f.description = PyStr(<<>>)
       /\ \A k \in ToolMetaFields \ {"description"} : toolRes.f[k] = None

C7_Witness ==
    /\ toolObj = Unset /\ toolWire # Unset /\ toolRes # Unset
    /\ toolWire.d = [name |-> PyStr(<<"t">>), type |-> PyStr(<<"L", "L", "M">>)]
    /\ toolRes.f.type = LLM

\* C8: Tool.serialize of a tool of the action kind has none of the keys type,
\* inputs, outputs; of any tool, it has no key outputs and no top-level entry
\* whose value is None.
C8_SerializedToolKeys ==
    (toolObj # Unset /\ toolWire # Unset)
    => /\ ~IsFault(toolWire)
       /\ toolObj.f.type.s = <<"a", "c", "t", "i", "o", "n">>
            => DOMAIN toolWire.d \cap {"type", "inputs", "outputs"} = {}
       /\ "outputs" \notin DOMAIN toolWire.d
       /\ \A k \in DOMAIN toolWire.d : toolWire.d[k] # None

C8_Witness ==
    /\ toolObj # Unset /\ toolWire # Unset
    /\ toolObj.f.type = _ACTION
    /\ toolObj.f.outputs # None /\ toolObj.f.outputs # PyDict(EmptyMap)
    /\ toolObj.f.inputs # PyDict(EmptyMap)
    /\ toolObj.f.module # None /\ toolObj.f.stage = None
    /\ DOMAIN toolWire.d = {"name", "module"}

\* C9: for an OutputDefinition of ValueType members, deserialize(serialize(o))
\* has o's is_property; serialize always emits the key is_property; and a
\* mapping without is_property deserializes to is_property = False.
C9_IsPropertyRoundTrip ==
    defKind = "output"
    => /\ (defOrig # Unset /\ defWire # Unset /\ ~IsFault(defWire))
            => "is_property" \in DOMAIN defWire.d
       /\ (defOrig # Unset /\ AllMembers(defOrig.f.type) /\ defRes # Unset)
            => /\ ~IsFault(defRes)
               /\ defRes.f.is_property = defOrig.f.is_property
       /\ (/\ defOrig = Unset /\ defRes # Unset /\ ~IsFault(defRes)
           /\ "is_property" \notin DOMAIN defWire.d)
            => defRes.f.is_property = PyBool(FALSE)

C9_Witness ==
    /\ defKind = "output" /\ defOrig # Unset /\ defRes # Unset /\ ~IsFault(defRes)
    /\ defOrig.f.is_property = PyBool(FALSE)
    /\ Len(defOrig.f.type.items) = 2
    /\ defRes.f.is_property = PyBool(FALSE)

\* inputs that int() and float() are meant to take: numbers, and strings of
\* decimal digits (with a decimal point for float)
AllDigits(s) == s # <<>> /\ \A i \in DOMAIN s : IsDigit(s[i])
WellFormedInt(v) ==
    \/ v.cls \in {"bool", "int"}
    \/ v.cls = "float" /\ v.kind = "finite"
    \/ IsStr(v) /\ AllDigits(v.s)
WellFormedFloat(v) ==
    \/ v.cls \in {"bool", "int", "float"}
    \/ IsStr(v) /\ AllDigits(v.s)
    \/ IsStr(v) /\ \E i \in 2..(Len(v.s) - 1) :
            /\ v.s[i] = "."
            /\ AllDigits(SubSeq(v.s, 1, i - 1))
            /\ AllDigits(SubSeq(v.s, i + 1, Len(v.s)))
IsBoolWord(v) == IsStr(v) /\ StrLower(v.s) \in {<<"t", "r", "u", "e">>, <<"f", "a", "l", "s", "e">>}

\* C10: ValueType.parse fails only for int, double, bool and list, and only on
\* malformed input: bool exactly when the input is neither a boolean nor the
\* word true / false in any casing; list exactly when the input is a string
\* that is not JSON, or when the input or its JSON value is not a list.  For
\* string, object, secret, prompt_template, file_path and image it returns a
\* value for every input; object returns a string that is not JSON as it is.
C10_ParseFailures ==
    pRes # Unset
    => /\ pKind \notin {INT, DOUBLE, BOOL, LIST} => ~IsFault(pRes)
       /\ (pKind = INT /\ WellFormedInt(pArg)) => ~IsFault(pRes)
       /\ (pKind = DOUBLE /\ WellFormedFloat(pArg)) => ~IsFault(pRes)
       /\ pKind = BOOL
            => (IsFault(pRes) <=> ~(pArg.cls = "bool" \/ IsBoolWord(pArg)))
       /\ pKind = LIST
            => (IsFault(pRes) <=>
                    \/ IsStr(pArg) /\ IsFault(JsonLoads(pArg.s))
                    \/ IsStr(pArg) /\ JsonLoads(pArg.s).cls # "list"
                    \/ ~IsStr(pArg) /\ pArg.cls # "list")
       /\ (pKind = OBJECT /\ IsStr(pArg) /\ IsFault(JsonLoads(pArg.s)))
            => pRes = pArg

C10_Witness ==
    /\ pKind = LIST /\ pArg = PyStr(<<"n", "o", "t", " ", "j", "s", "o", "n">>) /\ IsFault(pRes)

=============================================================================
